---- MODULE Spec2Model ----
(***************************************************************************)
(* A model of modules/model.py (class Candela): the masked loss and        *)
(* perplexity arithmetic over padded batches, the phrase-attention loss,   *)
(* and the construction / checkpoint / forward wiring of the three         *)
(* sub-components around one shared embedding table.                       *)
(*                                                                         *)
(* Tensors of floats are modelled over IEEE-754 values with their special  *)
(* values: a value is finite (a fixed-point integer, in thousandths), +inf,*)
(* -inf or NaN.  Logarithms are natural logarithms in thousandths of a nat.*)
(***************************************************************************)
EXTENDS Integers, Sequences, FiniteSets

\* ------------------------------------------------------------------ bounds
\* Examples per batch (first tensor dimension).
BatchSize == 2
\* Padded sequence length, targets.size(1).
MaxLen == 2
\* Number of classes: type_cnt of compute_loss, word_vocab_size of compute_ppl.
NumClasses == 2

\* Number of (planning step, phrase slot) pairs of an attention tensor.
NumPairs == 3

\* Parameter contents are abstract values 0..MaxWeight.
MaxWeight == 1
\* Embedding shapes: shape n has vocabulary size n + 1 and dimension n.
NumShapes == 2
\* Distinct input bundles (tensor_dict) a forward call is given.
NumInputs == 2
\* Cap of the step counter global_steps.
MaxSteps == 1
\* Embedding table objects the heap can hold.
MaxObjects == 4

\* Thousandths: the fixed-point resolution of finite values.
Milli == 10 * 10 * 10
\* The ceiling of compute_ppl, "100 * torch.ones(...)".
PplCeiling == 100
\* hidden_size of Candela.__init__.
hidden_size == 512

\* ------------------------------------------------------------ state
\* A padded batch given to compute_loss / compute_ppl, and their results.
VARIABLES readouts, targets, seq_len, loss, ppl
\* The tensors given to compute_ph_attn_loss, and its result.
VARIABLES ph_sel_target, align_vectors, mask, attn_loss
\* The heap of embedding table objects, the constructed model, the checkpoint
\* file, the outcome of load_from_checkpoint, and the last forward call.
VARIABLES heap, model, ckpt, loaded, fwd

lossVars == <<readouts, targets, seq_len, loss, ppl>>
attnVars == <<ph_sel_target, align_vectors, mask, attn_loss>>
modelVars == <<heap, model, ckpt, loaded, fwd>>
vars == <<readouts, targets, seq_len, loss, ppl,
          ph_sel_target, align_vectors, mask, attn_loss,
          heap, model, ckpt, loaded, fwd>>

\* ---------------------------------------------------- IEEE float values
Fin(x) == [k |-> "fin", v |-> x]
PInf == [k |-> "inf", v |-> 0]
NInf == [k |-> "ninf", v |-> 0]
NaN == [k |-> "nan", v |-> 0]

FNeg(a) ==
    CASE a.k = "fin" -> Fin(0 - a.v)
      [] a.k = "inf" -> NInf
      [] a.k = "ninf" -> PInf
      [] OTHER -> NaN

\* a + b: NaN is absorbing, inf + (-inf) is NaN.
FAdd(a, b) ==
    IF a.k = "nan" \/ b.k = "nan" THEN NaN
    ELSE IF a.k = "fin" /\ b.k = "fin" THEN Fin(a.v + b.v)
    ELSE IF a.k = "fin" THEN b
    ELSE IF b.k = "fin" THEN a
    ELSE IF a.k = b.k THEN a
    ELSE NaN

FSub(a, b) == FAdd(a, FNeg(b))

\* a * float(m) for a 0/1 mask entry m: 0 * inf and 0 * NaN are NaN.
FMulMask(a, m) ==
    IF m = 1 THEN a
    ELSE IF a.k = "fin" THEN Fin(0)
    ELSE NaN

\* a / float(n) for a count n >= 0: x/0 is +-inf, 0/0 is NaN.
FDivCount(a, n) ==
    IF a.k = "nan" THEN NaN
    ELSE IF a.k # "fin" THEN a
    ELSE IF n = 0
         THEN (IF a.v = 0 THEN NaN ELSE IF a.v > 0 THEN PInf ELSE NInf)
    ELSE IF a.v >= 0 THEN Fin(a.v \div n)
    ELSE Fin(0 - ((0 - a.v) \div n))

\* a <= b on values that are not NaN.
FLe(a, b) ==
    \/ a.k = "ninf"
    \/ b.k = "inf"
    \/ a.k = "fin" /\ b.k = "fin" /\ a.v <= b.v

\* torch.min(a, b), element-wise: a NaN operand is propagated.
TorchMin(a, b) ==
    IF a.k = "nan" \/ b.k = "nan" THEN NaN
    ELSE IF FLe(a, b) THEN a
    ELSE b

RECURSIVE FSum(_)
\* tensor.sum() of a flat sequence of values.
FSum(s) == IF s = <<>> THEN Fin(0) ELSE FAdd(Head(s), FSum(Tail(s)))

RECURSIVE FMax(_)
\* The maximum of a non-empty row; NaN if the row holds a NaN.
FMax(s) ==
    IF Len(s) = 1 THEN Head(s)
    ELSE LET m == FMax(Tail(s))
         IN  IF Head(s).k = "nan" \/ m.k = "nan" THEN NaN
             ELSE IF FLe(Head(s), m) THEN m
             ELSE Head(s)

\* float32 exp underflows to 0 below about -103.97.
ExpUnderflow == 104 * Milli
\* Finite scores are 0 or ScoreGap: their differences are 0 or beyond the
\* underflow of exp, so exp(x - max) is exactly 1 or 0 in float32.
ScoreGap == 150 * Milli

\* exp(d) for d = x - max(row) <= 0.
ExpShifted(d) ==
    CASE d.k = "nan" -> NaN
      [] d.k = "inf" -> PInf
      [] d.k = "ninf" -> Fin(0)
      [] d.k = "fin" /\ d.v = 0 -> Fin(Milli)
      [] d.k = "fin" /\ d.v <= 0 - ExpUnderflow -> Fin(0)

\* ln(n) in thousandths, n a small positive integer.
LnMilli(n) ==
    CASE n = 1 -> 0
      [] n = 2 -> 693
      [] n = 3 -> 1099
      [] n = 4 -> 1386
      [] n = 5 -> 1609

\* log(s) of a sum s of exp terms (a whole number of ones).
FLog(s) ==
    CASE s.k = "nan" -> NaN
      [] s.k = "inf" -> PInf
      [] s.k = "ninf" -> NaN
      [] s.k = "fin" /\ s.v = 0 -> NInf
      [] s.k = "fin" /\ s.v > 0 -> Fin(LnMilli(s.v \div Milli))

\* F.log_softmax(row): x - max - log(sum(exp(x - max))).
log_softmax(row) ==
    LET m == FMax(row)
        d == [c \in DOMAIN row |-> FSub(row[c], m)]
        e == [c \in DOMAIN row |-> ExpShifted(d[c])]
        l == FLog(FSum(e))
    IN  [c \in DOMAIN row |-> FSub(d[c], l)]

\* ------------------------------------------------------ padded batches
\* The result of an operation that has not run.
NoValue == [k |-> "none", v |-> 0]
NoPpl == [k |-> "none", of |-> <<>>]

\* Score rows of the model's batches: uniform scores, one class far ahead,
\* one class masked out with -inf.
UniformRow == [c \in 1..NumClasses |-> Fin(0)]
PeakRow == [c \in 1..NumClasses |-> IF c = 1 THEN Fin(ScoreGap) ELSE Fin(0)]
MaskedRow == [c \in 1..NumClasses |-> IF c = 1 THEN NInf ELSE Fin(0)]
ScoreRows == {UniformRow, PeakRow, MaskedRow}

\* tensor.view(-1, ...): row-major flattening of a [B][T] tensor.
Flatten(x) ==
    LET B == Len(x)
        T == Len(x[1])
    IN  [i \in 1..(B * T) |-> x[((i - 1) \div T) + 1][((i - 1) % T) + 1]]

\* flat.view(B, T): the inverse reshaping.
Unflatten(flat, B, T) ==
    [b \in 1..B |-> [t \in 1..T |-> flat[(b - 1) * T + t]]]

\* utils.get_sequence_mask_from_length: 1 where the position index is below
\* the example's true length.
get_sequence_mask_from_length(len, max_len) ==
    [b \in 1..Len(len) |-> [t \in 1..max_len |-> IF t - 1 < len[b] THEN 1 ELSE 0]]

RECURSIVE IntSum(_)
IntSum(s) == IF s = <<>> THEN 0 ELSE Head(s) + IntSum(Tail(s))

\* The per-position losses of compute_loss and compute_ppl before masking:
\* log-softmax over the flattened rows, gather at the target, negate, reshape.
PositionLosses(rd, tg) ==
    LET readouts_flat == Flatten(rd)
        log_probs_flat == [i \in DOMAIN readouts_flat |-> log_softmax(readouts_flat[i])]
        targets_flat == Flatten(tg)
        losses_flat == [i \in DOMAIN readouts_flat |->
                           FNeg(log_probs_flat[i][targets_flat[i]])]
    IN  Unflatten(losses_flat, Len(tg), Len(tg[1]))

\* losses * mask.float()
MaskedLosses(rd, tg, len) ==
    LET losses == PositionLosses(rd, tg)
        seq_mask == get_sequence_mask_from_length(len, Len(tg[1]))
    IN  [b \in 1..Len(tg) |->
            [t \in 1..Len(tg[1]) |-> FMulMask(losses[b][t], seq_mask[b][t])]]

\* Candela.compute_loss
compute_loss(rd, tg, len) ==
    LET losses == MaskedLosses(rd, tg, len)
    IN  FDivCount(FSum(Flatten(losses)), IntSum(len))

\* probs_normalized of compute_ppl after the clamp: one value per example.
probs_normalized(rd, tg, len) ==
    LET losses == MaskedLosses(rd, tg, len)
        losses_sum == [b \in 1..Len(tg) |-> FSum(losses[b])]
        quotient == [b \in 1..Len(tg) |-> FDivCount(losses_sum[b], len[b])]
    IN  [b \in 1..Len(tg) |-> TorchMin(quotient[b], Fin(PplCeiling * Milli))]

\* torch.mean(torch.exp(xs)), kept symbolic: the mean of e^x over the listed
\* exponents, NaN as soon as one exponent is NaN.
MeanExp(xs) ==
    IF \E i \in DOMAIN xs : xs[i].k = "nan"
    THEN [k |-> "nan", of |-> xs]
    ELSE [k |-> "mean_exp", of |-> xs]

\* Candela.compute_ppl
compute_ppl(rd, tg, len) == MeanExp(probs_normalized(rd, tg, len))

InitLoss ==
    /\ readouts \in [1..BatchSize -> [1..MaxLen -> ScoreRows]]
    /\ targets \in [1..BatchSize -> [1..MaxLen -> 1..NumClasses]]
    /\ seq_len \in [1..BatchSize -> 0..MaxLen]
    /\ loss = NoValue
    /\ ppl = NoPpl

ComputeLoss ==
    /\ loss = NoValue
    /\ loss' = compute_loss(readouts, targets, seq_len)
    /\ UNCHANGED <<readouts, targets, seq_len, ppl, attnVars, modelVars>>

ComputePpl ==
    /\ ppl = NoPpl
    /\ ppl' = compute_ppl(readouts, targets, seq_len)
    /\ UNCHANGED <<readouts, targets, seq_len, loss, attnVars, modelVars>>

\* ------------------------------------------- claims on the loss arithmetic
\* The negative log-probability of class c under one score row.
NLL(row, c) == FNeg(log_softmax(row)[c])

RECURSIVE ValidNLLs(_, _, _, _)
\* The losses of the valid positions (t < seq_len[b]) of examples b..B, in
\* order, taken straight from the rows: no mask, no flattening.
ValidNLLs(rd, tg, len, b) ==
    IF b > Len(tg) THEN <<>>
    ELSE [t \in 1..len[b] |-> NLL(rd[b][t], tg[b][t])] \o ValidNLLs(rd, tg, len, b + 1)

\* The losses of the valid positions of example b alone.
ExampleNLLs(rd, tg, len, b) == [t \in 1..len[b] |-> NLL(rd[b][t], tg[b][t])]

\* Sum over the valid positions divided by the sum of the lengths.
TokenWeightedMean(rd, tg, len) ==
    FDivCount(FSum(ValidNLLs(rd, tg, len, 1)), IntSum(len))

\* Position (b, t), t counted from 1, lies in the padded region.
IsPad(b, t) == t > seq_len[b]

\* Every padded position of the batch carries a finite loss.
PadFinite ==
    \A b \in 1..BatchSize, t \in 1..MaxLen :
        IsPad(b, t) => NLL(readouts[b][t], targets[b][t]).k = "fin"

\* x is a finite value in [0, ceiling].
InCeiling(x) == x.k = "fin" /\ 0 <= x.v /\ x.v <= PplCeiling * Milli

\* C1: compute_loss does not depend on the padded region: rewriting the scores
\* and the target of any position t >= seq_len[b] leaves the loss unchanged.
\* (Edits of one position at a time reach every padded content.)
C1_PaddingInvariance ==
    loss # NoValue =>
        \A b \in 1..BatchSize, t \in 1..MaxLen :
            IsPad(b, t) =>
                \A row \in ScoreRows, c \in 1..NumClasses :
                    compute_loss([readouts EXCEPT ![b][t] = row],
                                 [targets EXCEPT ![b][t] = c], seq_len) = loss

\* C1, restricted to padded regions whose losses are finite before and after
\* the edit: there the loss does not depend on the padded region.
FinitePad_PaddingInvariance ==
    (loss # NoValue /\ PadFinite) =>
        \A b \in 1..BatchSize, t \in 1..MaxLen :
            IsPad(b, t) =>
                \A row \in ScoreRows, c \in 1..NumClasses :
                    NLL(row, c).k = "fin" =>
                        compute_loss([readouts EXCEPT ![b][t] = row],
                                     [targets EXCEPT ![b][t] = c], seq_len) = loss

\* C2: compute_loss is the token-weighted mean, the sum of the losses of the
\* valid positions over the sum of the lengths; when all valid positions carry
\* the same loss L (and there is one), the result is L.
C2_TokenWeightedMean ==
    loss # NoValue =>
        /\ loss = TokenWeightedMean(readouts, targets, seq_len)
        /\ LET valid == ValidNLLs(readouts, targets, seq_len, 1)
           IN  (valid # <<>> /\ \A i \in DOMAIN valid : valid[i] = valid[1])
                   => loss = valid[1]

\* C2 where the padded losses are finite.
FinitePad_TokenWeightedMean ==
    (loss # NoValue /\ PadFinite) =>
        /\ loss = TokenWeightedMean(readouts, targets, seq_len)
        /\ LET valid == ValidNLLs(readouts, targets, seq_len, 1)
           IN  (valid # <<>> /\ \A i \in DOMAIN valid : valid[i] = valid[1])
                   => loss = valid[1]

\* C3: in compute_ppl every example of length >= 1 is exponentiated at a value
\* in [0, 100], and the mean of a batch of such examples is a mean of e^x over
\* x in [0, 100].
C3_PplBounded ==
    ppl # NoPpl =>
        /\ \A b \in 1..BatchSize :
               seq_len[b] >= 1 => InCeiling(ppl.of[b])
        /\ (\A b \in 1..BatchSize : seq_len[b] >= 1) => ppl.k = "mean_exp"

\* C3 where the padded losses are finite.
FinitePad_PplBounded ==
    (ppl # NoPpl /\ PadFinite) =>
        /\ \A b \in 1..BatchSize :
               seq_len[b] >= 1 => InCeiling(ppl.of[b])
        /\ (\A b \in 1..BatchSize : seq_len[b] >= 1) => ppl.k = "mean_exp"

\* The per-example normalisation the claim describes: sum over the example's
\* own valid positions, divide by its own length, take the minimum with 100.
PerExampleReference(rd, tg, len) ==
    MeanExp([b \in 1..Len(tg) |->
                TorchMin(FDivCount(FSum(ExampleNLLs(rd, tg, len, b)), len[b]),
                         Fin(PplCeiling * Milli))])

\* C4: compute_ppl normalises per example: each example's losses over its own
\* valid positions, over its own length, clamped at 100, exponentiated, and
\* the unweighted mean over the examples.
C4_PerExamplePpl ==
    ppl # NoPpl => ppl = PerExampleReference(readouts, targets, seq_len)

\* C4 where the padded losses are finite.
FinitePad_PerExamplePpl ==
    (ppl # NoPpl /\ PadFinite) => ppl = PerExampleReference(readouts, targets, seq_len)

\* The outcome of a call rejected by input validation.
Rejected == [k |-> "error", of |-> <<>>]

\* C10: compute_ppl rejects a batch holding an example of length 0.
C10_ZeroLengthRejected ==
    (ppl # NoPpl /\ \E b \in 1..BatchSize : seq_len[b] = 0) => ppl = Rejected

\* What compute_ppl does with an example of length 0: it returns NaN.
ZeroLength_PplIsNaN ==
    (ppl # NoPpl /\ \E b \in 1..BatchSize : seq_len[b] = 0) => ppl.k = "nan"
\* ------------------------------------------------ phrase-attention loss
\* Attention probabilities in halves: 0, 1/2, 1.
ProbHalves == 0..2

\* max(log(h / 2), -100): F.binary_cross_entropy clamps its logarithms at -100.
ClampedLog(h) ==
    CASE h = 0 -> Fin(0 - 100 * Milli)
      [] h = 1 -> Fin(0 - LnMilli(2))
      [] h = 2 -> Fin(0)

\* F.binary_cross_entropy(input, target, reduction='none') at one pair:
\* -(t * log(p) + (1 - t) * log(1 - p)).
binary_cross_entropy(h, t) ==
    FNeg(FAdd(FMulMask(ClampedLog(h), t), FMulMask(ClampedLog(2 - h), 1 - t)))

\* Candela.compute_ph_attn_loss without the mask: the sum of all element
\* losses over mask.sum().
unmasked_ph_attn_loss(tgt, align, msk) ==
    LET bce == [i \in DOMAIN align |-> binary_cross_entropy(align[i], tgt[i])]
    IN  FDivCount(FSum(bce), IntSum(msk))

\* Candela.compute_ph_attn_loss over tensors flattened to their pairs.
compute_ph_attn_loss(tgt, align, msk) ==
    LET bce == [i \in DOMAIN align |-> binary_cross_entropy(align[i], tgt[i])]
        masked_loss == [i \in DOMAIN align |-> FMulMask(bce[i], msk[i])]
    IN  FDivCount(FSum(masked_loss), IntSum(msk))

InitAttn ==
    /\ ph_sel_target \in [1..NumPairs -> {0, 1}]
    /\ align_vectors \in [1..NumPairs -> ProbHalves]
    /\ mask \in [1..NumPairs -> {0, 1}]
    /\ attn_loss = NoValue

ComputePhAttnLoss ==
    /\ attn_loss = NoValue
    /\ attn_loss' = compute_ph_attn_loss(ph_sel_target, align_vectors, mask)
    /\ UNCHANGED <<ph_sel_target, align_vectors, mask, lossVars, modelVars>>

RECURSIVE SelectedBce(_, _, _, _)
\* The element losses of the pairs i..n whose mask is 1, in order.
SelectedBce(tgt, align, msk, i) ==
    IF i > Len(align) THEN <<>>
    ELSE (IF msk[i] = 1 THEN <<binary_cross_entropy(align[i], tgt[i])>> ELSE <<>>)
             \o SelectedBce(tgt, align, msk, i + 1)

\* C5: compute_ph_attn_loss is the sum of the binary cross-entropy over the
\* pairs whose mask is 1 divided by their number; the pairs whose mask is 0 do
\* not change it; with every mask entry 1 and every probability equal to its
\* target, it is 0.
C5_MaskedAttnLoss ==
    attn_loss # NoValue =>
        /\ LET sel == SelectedBce(ph_sel_target, align_vectors, mask, 1)
           IN  attn_loss = FDivCount(FSum(sel), Len(sel))
        /\ \A i \in 1..NumPairs :
               mask[i] = 0 =>
                   \A h \in ProbHalves, t \in {0, 1} :
                       compute_ph_attn_loss([ph_sel_target EXCEPT ![i] = t],
                                            [align_vectors EXCEPT ![i] = h],
                                            mask) = attn_loss
        /\ (\A i \in 1..NumPairs : mask[i] = 1 /\ align_vectors[i] = 2 * ph_sel_target[i])
               => attn_loss = Fin(0)

\* C5's case: a loss computed over a tensor with a masked-out pair that
\* carries a positive element loss and a valid pair that carries one too.
C5_Witness ==
    /\ attn_loss.k = "fin"
    /\ attn_loss.v > 0
    /\ \E i \in 1..NumPairs :
           mask[i] = 0 /\ binary_cross_entropy(align_vectors[i], ph_sel_target[i]).v > 0
    /\ \E i \in 1..NumPairs :
           mask[i] = 1 /\ binary_cross_entropy(align_vectors[i], ph_sel_target[i]).v > 0
\* ------------------------------------- the model object and checkpoints
Weights == 0..MaxWeight
\* [vocabulary size, embedding dimension] of an embedding table.
Shapes == {<<n + 1, n>> : n \in 1..NumShapes}
Inputs == 1..NumInputs
Components == {"enc", "sp_dec", "wd_dec"}

\* A tensor: its shape and its (abstract) content.
Tensor(shape, w) == [shape |-> shape, w |-> w]
NoTensor == Tensor(<<>>, 0)
\* A free slot of the heap of embedding table objects.
FreeSlot == NoTensor

\* The smallest free object id.
NewId(hp) == CHOOSE i \in DOMAIN hp : hp[i] = FreeSlot /\ \A j \in DOMAIN hp : j < i => hp[j] # FreeSlot

\* The shape of a sub-component's own parameters, fixed by the constructor
\* arguments (hidden_size, word_emb_size and, for the word decoder, the
\* vocabulary size).
ParamShape(c, word_emb_dim, word_vocab_size) ==
    IF c = "wd_dec" THEN <<hidden_size, word_emb_dim, word_vocab_size>>
    ELSE <<hidden_size, word_emb_dim>>

\* The recurrent state of a freshly constructed decoder.
NoState == <<0>>

\* encoder.EncoderRNN / decoder.SentencePlanner / decoder.WordDecoder as
\* constructed: the embedding is kept by reference (an object id), the own
\* parameters are initialised to w.
SubComponent(c, word_emb, word_emb_dim, word_vocab_size, w) ==
    [embedding |-> word_emb,
     params |-> Tensor(ParamShape(c, word_emb_dim, word_vocab_size), w),
     state |-> NoState]

\* Candela.__init__ handing the word decoder a copy of the table.
CandelaCopyingEmbedding(hp, word_emb, word_emb_dim, word_vocab_size, init) ==
    LET copy == NewId(hp)
    IN  [m |-> [enc |-> SubComponent("enc", word_emb, word_emb_dim, word_vocab_size, init["enc"]),
                sp_dec |-> SubComponent("sp_dec", word_emb, word_emb_dim, word_vocab_size, init["sp_dec"]),
                wd_dec |-> SubComponent("wd_dec", copy, word_emb_dim, word_vocab_size, init["wd_dec"]),
                word_vocab_size |-> word_vocab_size,
                global_steps |-> 0],
         hp |-> [hp EXCEPT ![copy] = hp[word_emb]]]

\* Candela.__init__: the three sub-components are given the same word_emb;
\* init holds the initial values of their own parameters.
Candela(hp, word_emb, word_emb_dim, word_vocab_size, init) ==
    [m |-> [enc |-> SubComponent("enc", word_emb, word_emb_dim, word_vocab_size, init["enc"]),
            sp_dec |-> SubComponent("sp_dec", word_emb, word_emb_dim, word_vocab_size, init["sp_dec"]),
            wd_dec |-> SubComponent("wd_dec", word_emb, word_emb_dim, word_vocab_size, init["wd_dec"]),
            word_vocab_size |-> word_vocab_size,
            global_steps |-> 0],
     hp |-> hp]

NoModel ==
    [enc |-> SubComponent("enc", 0, 0, 0, 0),
     sp_dec |-> SubComponent("sp_dec", 0, 0, 0, 0),
     wd_dec |-> SubComponent("wd_dec", 0, 0, 0, 0),
     word_vocab_size |-> 0,
     global_steps |-> 0]

\* ----------------------------------------------------------- forward
\* init_state(encoder_final): the recurrent state is overwritten.
init_state(comp, final) == [comp EXCEPT !.state = <<1>> \o final]

\* The encoder's final-state summary for input x.
encoder_final(m, hp, x) == <<x, m.enc.params.w, hp[m.enc.embedding].w>>

\* The phrase-bank step of forward: the phrase bank of x embedded with the
\* table the sentence planner references, summed over the sub-token axis.
ph_bank_embedded(m, hp, x) == <<x, hp[m.sp_dec.embedding].w>>

\* The outputs of a forward call and the model it leaves behind.  A
\* sub-component's output is written as the list of what it is computed from:
\* its own parameters, the embedding table it references, its recurrent state
\* and its inputs.
ForwardFrom(m, hp, x, sp0, wd0) ==
    LET enc_outs == <<x, m.enc.params.w, hp[m.enc.embedding].w>>
        sp_dec_outs == <<sp0.params.w, hp[sp0.embedding].w>> \o sp0.state
                           \o ph_bank_embedded(m, hp, x)
        wd_readouts == <<wd0.params.w, hp[wd0.embedding].w>> \o wd0.state \o enc_outs \o sp_dec_outs
    IN  [out |-> [st_readouts |-> <<1>> \o sp_dec_outs,
                  wd_readouts |-> wd_readouts,
                  ph_attn_probs |-> <<2>> \o sp_dec_outs,
                  ph_attn_logits |-> <<3>> \o sp_dec_outs],
         m |-> [m EXCEPT !.sp_dec = [sp0 EXCEPT !.state = <<2, x>>],
                         !.wd_dec = [wd0 EXCEPT !.state = <<2, x>>]]]

\* Candela.forward without the planner's init_state call.
forwardStalePlanner(m, hp, x) ==
    ForwardFrom(m, hp, x, m.sp_dec, init_state(m.wd_dec, encoder_final(m, hp, x)))

\* Candela.forward: the encoder, both init_state calls, the phrase-bank
\* embedding, the planner, the word decoder.
forward(m, hp, x) ==
    ForwardFrom(m, hp, x, init_state(m.sp_dec, encoder_final(m, hp, x)),
                init_state(m.wd_dec, encoder_final(m, hp, x)))

NoOutputs == [st_readouts |-> <<>>, wd_readouts |-> <<>>,
              ph_attn_probs |-> <<>>, ph_attn_logits |-> <<>>]
\* No forward call yet: the input of the last call, of the one before, and
\* the outputs of the last call.
NoCall == [x |-> 0, prev |-> 0, out |-> NoOutputs]
\* ------------------------------------------------------- checkpoints
SectionNames == {"encoder", "sp_decoder", "wd_decoder"}
\* The keys of a sub-component's state_dict: the embedding table and (taken
\* together) its own parameters.
ExpectedKeys == {"embedding.weight", "params"}

\* comp.state_dict()
state_dict(comp, hp) ==
    [keys |-> ExpectedKeys, embedding_weight |-> hp[comp.embedding], params |-> comp.params]

NoDict == [keys |-> {}, embedding_weight |-> NoTensor, params |-> NoTensor]
\* No file at the checkpoint path.
NoCkpt == [exists |-> FALSE, tampered |-> FALSE, sections |-> {},
           encoder |-> NoDict, sp_decoder |-> NoDict, wd_decoder |-> NoDict]

\* The checkpoint written from a model: its three sections.
SavedCheckpoint(m, hp) ==
    [exists |-> TRUE, tampered |-> FALSE, sections |-> SectionNames,
     encoder |-> state_dict(m.enc, hp),
     sp_decoder |-> state_dict(m.sp_dec, hp),
     wd_decoder |-> state_dict(m.wd_dec, hp)]

\* load_state_dict that ignores missing and unexpected keys (strict=False).
load_state_dict_lenient(comp, hp, sd) ==
    LET emb_ok == "embedding.weight" \in sd.keys =>
                      sd.embedding_weight.shape = hp[comp.embedding].shape
        par_ok == "params" \in sd.keys => sd.params.shape = comp.params.shape
    IN  IF emb_ok /\ par_ok
        THEN [ok |-> TRUE,
              comp |-> IF "params" \in sd.keys
                       THEN [comp EXCEPT !.params.w = sd.params.w] ELSE comp,
              hp |-> IF "embedding.weight" \in sd.keys
                     THEN [hp EXCEPT ![comp.embedding].w = sd.embedding_weight.w] ELSE hp]
        ELSE [ok |-> FALSE, comp |-> comp, hp |-> hp]

\* comp.load_state_dict(sd), strict: a missing key, an unexpected key or a
\* shape mismatch raises; otherwise every tensor is copied in place, the
\* embedding into the table object the sub-component references.
load_state_dict(comp, hp, sd) ==
    IF /\ sd.keys = ExpectedKeys
       /\ sd.embedding_weight.shape = hp[comp.embedding].shape
       /\ sd.params.shape = comp.params.shape
    THEN [ok |-> TRUE,
          comp |-> [comp EXCEPT !.params.w = sd.params.w],
          hp |-> [hp EXCEPT ![comp.embedding].w = sd.embedding_weight.w]]
    ELSE [ok |-> FALSE, comp |-> comp, hp |-> hp]

\* The outcome of a load that raised: no model, the heap as it was.
LoadError(hp) == [k |-> "error", m |-> NoModel, hp |-> hp]

\* Candela.load_from_checkpoint without the word decoder's load.
load_from_checkpoint_skipping_wd(hp, c, init) ==
    IF ~c.exists \/ "encoder" \notin c.sections
       \/ "embedding.weight" \notin c.encoder.keys
    THEN LoadError(hp)
    ELSE
    LET word_emb == NewId(hp)
        hp1 == [hp EXCEPT ![word_emb] = c.encoder.embedding_weight]
        built == Candela(hp1, word_emb, hp1[word_emb].shape[2], hp1[word_emb].shape[1], init)
        e == load_state_dict(built.m.enc, built.hp, c.encoder)
    IN  IF ~e.ok \/ "sp_decoder" \notin c.sections THEN LoadError(hp)
        ELSE
        LET s == load_state_dict(built.m.sp_dec, e.hp, c.sp_decoder)
        IN  IF ~s.ok \/ "wd_decoder" \notin c.sections THEN LoadError(hp)
            ELSE [k |-> "model",
                  m |-> [built.m EXCEPT !.enc = e.comp, !.sp_dec = s.comp],
                  hp |-> s.hp]

\* Candela.load_from_checkpoint: torch.load, the embedding rebuilt from the
\* encoder section, the constructor, the three loads in order.  Any raise
\* ends the call without a model.
load_from_checkpoint(hp, c, init) ==
    IF ~c.exists \/ "encoder" \notin c.sections
       \/ "embedding.weight" \notin c.encoder.keys
    THEN LoadError(hp)
    ELSE
    LET word_emb == NewId(hp)
        hp1 == [hp EXCEPT ![word_emb] = c.encoder.embedding_weight]
        built == Candela(hp1, word_emb, hp1[word_emb].shape[2], hp1[word_emb].shape[1], init)
        e == load_state_dict(built.m.enc, built.hp, c.encoder)
    IN  IF ~e.ok \/ "sp_decoder" \notin c.sections THEN LoadError(hp)
        ELSE
        LET s == load_state_dict(built.m.sp_dec, e.hp, c.sp_decoder)
        IN  IF ~s.ok \/ "wd_decoder" \notin c.sections THEN LoadError(hp)
            ELSE
            LET w == load_state_dict(built.m.wd_dec, s.hp, c.wd_decoder)
            IN  IF ~w.ok THEN LoadError(hp)
                ELSE [k |-> "model",
                      m |-> [built.m EXCEPT !.enc = e.comp, !.sp_dec = s.comp,
                                            !.wd_dec = w.comp],
                      hp |-> w.hp]

NoLoad == [k |-> "none", m |-> NoModel]

\* The heap once the tables of a dropped model are collected.
Collect(hp, l) ==
    IF l.k # "model" THEN hp
    ELSE [i \in DOMAIN hp |->
             IF i \in {l.m.enc.embedding, l.m.sp_dec.embedding, l.m.wd_dec.embedding}
             THEN FreeSlot ELSE hp[i]]

\* ------------------------------------------------------------ actions
InitModel ==
    \E shape \in Shapes, w \in Weights, init \in [Components -> Weights] :
        LET hp0 == [i \in 1..MaxObjects |-> IF i = 1 THEN Tensor(shape, w) ELSE FreeSlot]
            built == Candela(hp0, 1, shape[2], shape[1], init)
        IN  /\ heap = built.hp
            /\ model = built.m
            /\ ckpt = NoCkpt
            /\ loaded = NoLoad
            /\ fwd = NoCall

\* model(tensor_dict)
Forward(x) ==
    LET r == forward(model, heap, x)
    IN  /\ model' = r.m
        /\ fwd' = [x |-> x, prev |-> fwd.x, out |-> r.out]
        /\ UNCHANGED <<heap, ckpt, loaded, lossVars, attnVars>>

\* An in-place write of the embedding table through the reference one
\* sub-component holds (an optimizer step, a manual assignment).
WriteEmbedding(who, via, w) ==
    /\ who = "loaded" => loaded.k = "model"
    /\ LET m == IF who = "model" THEN model ELSE loaded.m
       IN  /\ heap[m[via].embedding].w # w
           /\ heap' = [heap EXCEPT ![m[via].embedding].w = w]
    /\ UNCHANGED <<model, ckpt, loaded, fwd, lossVars, attnVars>>

\* The training loop's bookkeeping: model.global_steps += 1.
IncrementSteps ==
    /\ model.global_steps < MaxSteps
    /\ model' = [model EXCEPT !.global_steps = @ + 1]
    /\ UNCHANGED <<heap, ckpt, loaded, fwd, lossVars, attnVars>>

\* The three sections of the model are written to the checkpoint file; a
\* model loaded from the file's earlier content is dropped.
SaveCheckpoint ==
    /\ ckpt' = SavedCheckpoint(model, heap)
    /\ ckpt' # ckpt
    /\ loaded' = NoLoad
    /\ heap' = Collect(heap, loaded)
    /\ UNCHANGED <<model, fwd, lossVars, attnVars>>

\* The ways a checkpoint file can differ from a saved one in one section.
Tampered(c) ==
    {[c EXCEPT !.tampered = TRUE, !.sections = @ \ {s}] : s \in SectionNames}
    \cup {[c EXCEPT !.tampered = TRUE, ![s].keys = @ \ {"embedding.weight"},
                    ![s].embedding_weight = NoTensor] : s \in SectionNames}
    \cup {[c EXCEPT !.tampered = TRUE, ![s].keys = @ \cup {"unexpected"}] : s \in SectionNames}
    \cup {[c EXCEPT !.tampered = TRUE, ![s].embedding_weight.shape = sh] :
              s \in SectionNames, sh \in Shapes}
    \cup {[c EXCEPT !.tampered = TRUE, ![s].params.shape = <<>>] : s \in SectionNames}
    \cup {[c EXCEPT !.tampered = TRUE, ![s].embedding_weight.w = w] :
              s \in SectionNames, w \in Weights}

\* The file is replaced by one that differs from the saved checkpoint.
TamperCheckpoint ==
    /\ ckpt.exists
    /\ ~ckpt.tampered
    /\ \E c \in Tampered(ckpt) :
           /\ [c EXCEPT !.tampered = FALSE] # ckpt
           /\ ckpt' = c
    /\ loaded' = NoLoad
    /\ heap' = Collect(heap, loaded)
    /\ UNCHANGED <<model, fwd, lossVars, attnVars>>

\* loaded = Candela.load_from_checkpoint(path); init is the initialisation of
\* the fresh sub-components' own parameters.
LoadFromCheckpoint ==
    \E init \in [Components -> Weights] :
        LET r == load_from_checkpoint(Collect(heap, loaded), ckpt, init)
        IN  /\ loaded' = [k |-> r.k, m |-> r.m]
            /\ heap' = r.hp
            /\ UNCHANGED <<model, ckpt, fwd, lossVars, attnVars>>

\* --------------------------------- claims on the model and checkpoints
\* The model as a first forward call finds it: no recurrent state yet, the
\* step counter at 0.
FreshModel(m) ==
    [m EXCEPT !.sp_dec.state = NoState, !.wd_dec.state = NoState, !.global_steps = 0]

\* C6: forward is deterministic across calls: whatever calls came before, a
\* forward call returns the outputs a first call would return for the same
\* input and parameters, and it leaves global_steps as it was.
C6_ForwardDeterministic ==
    [][\A x \in Inputs :
           Forward(x) =>
               /\ fwd'.out = forward(FreshModel(model), heap, x).out
               /\ model'.global_steps = model.global_steps]_vars

\* C6's case: a forward call that follows a call with another input, with
\* the step counter advanced.
C6_Witness ==
    /\ fwd.prev # 0
    /\ fwd.prev # fwd.x
    /\ model.global_steps > 0

\* The parameters a model's sub-components hold: the content of the table
\* each references, and its own parameters.
ParamsOf(m, hp) ==
    [c \in Components |-> [embedding |-> hp[m[c].embedding], params |-> m[c].params]]

ComponentOf(s) ==
    CASE s = "encoder" -> "enc"
      [] s = "sp_decoder" -> "sp_dec"
      [] s = "wd_decoder" -> "wd_dec"

\* A checkpoint with its three sections, each with exactly the keys of its
\* sub-component and the shapes of a model built from the encoder section's
\* embedding shape.
WellFormed(c) ==
    /\ c.exists
    /\ c.sections = SectionNames
    /\ "embedding.weight" \in c.encoder.keys
    /\ \A s \in SectionNames :
           /\ c[s].keys = ExpectedKeys
           /\ c[s].embedding_weight.shape = c.encoder.embedding_weight.shape
           /\ c[s].params.shape =
                  ParamShape(ComponentOf(s), c.encoder.embedding_weight.shape[2],
                             c.encoder.embedding_weight.shape[1])

\* C8: load_from_checkpoint returns a model exactly when the checkpoint is
\* well-formed; otherwise it ends in an error and nothing of the model it was
\* building is returned or kept.
C8_LoadAllOrNothing ==
    loaded.k # "none" =>
        /\ loaded.k = "model" <=> WellFormed(ckpt)
        /\ loaded.k = "error" =>
               /\ loaded.m = NoModel
               /\ \A i \in DOMAIN heap : heap[i] # FreeSlot => i = model.enc.embedding

\* C8's case: a load that failed on a checkpoint holding its three sections.
C8_Witness ==
    /\ loaded.k = "error"
    /\ ckpt.exists
    /\ ckpt.sections = SectionNames

\* The models that exist: the constructed one and, after a successful load,
\* the loaded one.
LiveModels == {model} \cup (IF loaded.k = "model" THEN {loaded.m} ELSE {})

\* C9: in every model the three sub-components reference one and the same
\* table object, so the content seen through any of them, and by the
\* phrase-bank step of forward, is the same after any write.
C9_SharedEmbedding ==
    \A m \in LiveModels :
        /\ \A c \in Components :
               /\ m[c].embedding = m.enc.embedding
               /\ heap[m[c].embedding] # FreeSlot
        /\ \A c \in Components, x \in Inputs :
               ph_bank_embedded(m, heap, x) = <<x, heap[m[c].embedding].w>>

\* C9's case: a loaded model whose table was written after the three section
\* loads, and a constructed model whose table was written too.
C9_Witness ==
    /\ loaded.k = "model"
    /\ heap[loaded.m.wd_dec.embedding].w # ckpt.wd_decoder.embedding_weight.w
    /\ heap[model.enc.embedding].w # heap[loaded.m.enc.embedding].w

\* ----------------------------------------------------- specifications
IdleLoss ==
    /\ readouts = <<>>
    /\ targets = <<>>
    /\ seq_len = <<>>
    /\ loss = NoValue
    /\ ppl = NoPpl

IdleAttn ==
    /\ ph_sel_target = <<>>
    /\ align_vectors = <<>>
    /\ mask = <<>>
    /\ attn_loss = NoValue

IdleModel ==
    /\ heap = <<>>
    /\ model = NoModel
    /\ ckpt = NoCkpt
    /\ loaded = NoLoad
    /\ fwd = NoCall

\* The loss and perplexity functions over all batches of the bounds.
InitLossSpec == InitLoss /\ IdleAttn /\ IdleModel

NextLoss == ComputeLoss \/ ComputePpl

SpecLoss == InitLossSpec /\ [][NextLoss]_vars

\* The phrase-attention loss over all tensors of the bounds.
InitAttnSpec == InitAttn /\ IdleLoss /\ IdleModel

NextAttn == ComputePhAttnLoss

SpecAttn == InitAttnSpec /\ [][NextAttn]_vars

\* A constructed model under forward calls, embedding updates and the
\* training loop's step counter.
InitModelSpec == InitModel /\ IdleLoss /\ IdleAttn

NextForward ==
    \/ \E x \in Inputs : Forward(x)
    \/ \E via \in Components, w \in Weights : WriteEmbedding("model", via, w)
    \/ IncrementSteps

SpecForward == InitModelSpec /\ [][NextForward]_vars

\* A constructed model, its checkpoint file and the model loaded from it.
NextCheckpoint ==
    \/ SaveCheckpoint
    \/ TamperCheckpoint
    \/ LoadFromCheckpoint
    \/ \E who \in {"model", "loaded"}, via \in Components, w \in Weights :
           WriteEmbedding(who, via, w)

SpecCheckpoint == InitModelSpec /\ [][NextCheckpoint]_vars
====
